---- MODULE Spec2Model ----
(***************************************************************************)
(* char-ranges: iterators over the chars of a UTF-8 string together with   *)
(* the byte range each char occupies (CharRanges), optionally shifted by a *)
(* constant offset (CharRangesOffset).                                     *)
(*                                                                         *)
(* A string is the sequence of its UTF-8 bytes.  The library is built on   *)
(* core::str::CharIndices / core::str::Chars; their decoding steps are     *)
(* modelled byte by byte, so that ranges, lengths and characters are       *)
(* computed from the bytes and not assumed.                                *)
(***************************************************************************)
EXTENDS Integers, Sequences, FiniteSets, TLC

(***************************************************************************)
(* Bounds of the model.                                                    *)
(***************************************************************************)
\* longest text, in characters
MaxLen == 3
\* largest skip count handed to nth / nth_back
MaxN == 2
\* largest of the small offsets handed to offset()
MaxOffset == 2

\* usize::MAX of the narrowest pointer width Rust supports (16 bit)
USIZE_MAX == 65535

\* One scalar value of every encoded length: 'A', U+00D8, U+2208, U+1F30D
CodePoints == {65, 216, 8712, 127757}

(***************************************************************************)
(* UTF-8                                                                   *)
(***************************************************************************)
\* char::len_utf8
len_utf8(c) ==
    IF c < 128 THEN 1
    ELSE IF c < 2048 THEN 2
    ELSE IF c < 65536 THEN 3
    ELSE 4

\* char::encode_utf8: the bytes of one scalar value
encode_utf8(c) ==
    IF len_utf8(c) = 1 THEN << c >>
    ELSE IF len_utf8(c) = 2 THEN
        << 192 + (c \div 64), 128 + (c % 64) >>
    ELSE IF len_utf8(c) = 3 THEN
        << 224 + (c \div 4096), 128 + ((c \div 64) % 64), 128 + (c % 64) >>
    ELSE
        << 240 + (c \div 262144), 128 + ((c \div 4096) % 64),
           128 + ((c \div 64) % 64), 128 + (c % 64) >>

\* a &str literal: the concatenated encodings of its chars
RECURSIVE Encode(_)
Encode(cs) ==
    IF cs = << >> THEN << >> ELSE encode_utf8(Head(cs)) \o Encode(Tail(cs))

\* utf8_is_cont_byte: (byte as i8) < -64
utf8_is_cont_byte(b) == b >= 128 /\ b < 192

\* utf8_acc_cont_byte: (ch << 6) | (byte & 0x3F)
utf8_acc_cont_byte(ch, b) == ch * 64 + (b % 64)

\* next_code_point, reading the bytes of s from byte offset lo on;
\* n is the number of bytes read
next_code_point(s, lo) ==
    LET x == s[lo + 1] IN
    IF x < 128 THEN [ch |-> x, n |-> 1]
    ELSE
        LET init == x % 32
            y    == s[lo + 2]
        IN
        IF x < 224 THEN [ch |-> utf8_acc_cont_byte(init, y), n |-> 2]
        ELSE
            LET z   == s[lo + 3]
                y_z == utf8_acc_cont_byte(y % 64, z)
            IN
            IF x < 240 THEN [ch |-> init * 4096 + y_z, n |-> 3]
            ELSE
                LET w == s[lo + 4] IN
                [ch |-> (init % 8) * 262144 + y_z * 64 + (w % 64), n |-> 4]

\* next_code_point_reverse, reading the bytes of s backwards from byte
\* offset hi (exclusive); n is the number of bytes read
next_code_point_reverse(s, hi) ==
    LET w == s[hi] IN
    IF w < 128 THEN [ch |-> w, n |-> 1]
    ELSE
        LET z == s[hi - 1] IN
        IF ~ utf8_is_cont_byte(z) THEN
            [ch |-> utf8_acc_cont_byte(z % 32, w), n |-> 2]
        ELSE
            LET y == s[hi - 2] IN
            IF ~ utf8_is_cont_byte(y) THEN
                [ch |-> utf8_acc_cont_byte(utf8_acc_cont_byte(y % 16, z), w),
                 n  |-> 3]
            ELSE
                LET x == s[hi - 3] IN
                [ch |-> utf8_acc_cont_byte(
                            utf8_acc_cont_byte(
                                utf8_acc_cont_byte(x % 8, y), z), w),
                 n  |-> 4]

(***************************************************************************)
(* Option<(Range<usize>, char)> and the outcome of a call                  *)
(***************************************************************************)
None == [kind |-> "None"]
Some(start, end, c) == [kind |-> "Some", start |-> start, end |-> end, c |-> c]
\* the call panicked (arithmetic overflow with overflow checks enabled)
Panic == [kind |-> "Panic"]

\* Option<(usize, char)> of CharIndices
SomeIdx(index, c) == [kind |-> "Some", index |-> index, c |-> c]

(***************************************************************************)
(* core::str::Chars: a byte-slice iterator over s[lo..hi]                  *)
(***************************************************************************)
Chars_new(s) == [s |-> s, lo |-> 0, hi |-> Len(s)]

Chars_len(ch) == ch.hi - ch.lo

Chars_as_str(ch) == SubSeq(ch.s, ch.lo + 1, ch.hi)

(***************************************************************************)
(* core::str::CharIndices { front_offset, iter: Chars }                    *)
(***************************************************************************)
CharIndices_new(s) == [front_offset |-> 0, iter |-> Chars_new(s)]

\* CharIndices::next
CharIndices_next(ci) ==
    LET pre_len == Chars_len(ci.iter) IN
    IF pre_len = 0 THEN [it |-> ci, item |-> None]
    ELSE
        LET d     == next_code_point(ci.iter.s, ci.iter.lo)
            iter2 == [ci.iter EXCEPT !.lo = @ + d.n]
            index == ci.front_offset
            len   == Chars_len(iter2)
        IN
        [it   |-> [front_offset |-> ci.front_offset + pre_len - len,
                   iter |-> iter2],
         item |-> SomeIdx(index, d.ch)]

\* CharIndices::next_back
CharIndices_next_back(ci) ==
    IF Chars_len(ci.iter) = 0 THEN [it |-> ci, item |-> None]
    ELSE
        LET d     == next_code_point_reverse(ci.iter.s, ci.iter.hi)
            iter2 == [ci.iter EXCEPT !.hi = @ - d.n]
            index == ci.front_offset + Chars_len(iter2)
        IN
        [it   |-> [ci EXCEPT !.iter = iter2],
         item |-> SomeIdx(index, d.ch)]

\* Iterator::nth (provided method): advance_by(n), which calls next() n
\* times and stops at the first None, then next()
RECURSIVE CharIndices_nth(_, _)
CharIndices_nth(ci, n) ==
    IF n = 0 THEN CharIndices_next(ci)
    ELSE
        LET r == CharIndices_next(ci) IN
        IF r.item = None THEN r ELSE CharIndices_nth(r.it, n - 1)

\* DoubleEndedIterator::nth_back (provided method): advance_back_by(n),
\* then next_back()
RECURSIVE CharIndices_nth_back(_, _)
CharIndices_nth_back(ci, n) ==
    IF n = 0 THEN CharIndices_next_back(ci)
    ELSE
        LET r == CharIndices_next_back(ci) IN
        IF r.item = None THEN r ELSE CharIndices_nth_back(r.it, n - 1)

\* Chars::count: the bytes of the view that are not continuation bytes
Chars_count(ch) ==
    Cardinality({i \in (ch.lo + 1)..ch.hi : ~ utf8_is_cont_byte(ch.s[i])})

\* Chars::size_hint: ((len + 3) / 4, Some(len)) of the remaining bytes
Chars_size_hint(ch) ==
    [lo |-> (Chars_len(ch) + 3) \div 4, hi |-> Chars_len(ch)]

\* CharIndices::size_hint delegates to Chars
CharIndices_size_hint(ci) == Chars_size_hint(ci.iter)

\* CharIndices::as_str and CharIndices::count delegate to Chars
CharIndices_as_str(ci) == Chars_as_str(ci.iter)

CharIndices_count(ci) == Chars_count(ci.iter)

(***************************************************************************)
(* The build profile and usize arithmetic                                  *)
(***************************************************************************)
VARIABLE overflow_checks    \* TRUE: `+` panics on overflow; FALSE: it wraps

\* a + b on usize does not fit
usize_overflows(a, b) == a + b > USIZE_MAX

\* a + b on usize when overflow checks are off
usize_wrapping_add(a, b) == (a + b) % (USIZE_MAX + 1)

(***************************************************************************)
(* CharRanges { iter: CharIndices }                                        *)
(***************************************************************************)
\* CharRanges::new / str::char_ranges
CharRanges_new(s) == [iter |-> CharIndices_new(s)]

\* (mutant) as_str hands back the whole text instead of the remaining view
CharRanges_as_str_whole(cr) == cr.iter.iter.s

\* CharRanges::as_str
CharRanges_as_str(cr) == CharIndices_as_str(cr.iter)

\* (mutant) count() is the number of bytes left
CharRanges_count_bytes(cr) == Chars_len(cr.iter.iter)

\* CharRanges::count
CharRanges_count(cr) == CharIndices_count(cr.iter)

\* (mutant) size_hint() bounds the bytes left, not the chars
CharRanges_size_hint_bytes(cr) ==
    [lo |-> Chars_len(cr.iter.iter), hi |-> Chars_len(cr.iter.iter)]

\* CharRanges::size_hint
CharRanges_size_hint(cr) == CharIndices_size_hint(cr.iter)

\* (mutant) the range i..(i + 1) the crate documentation warns against
CharRanges_item_one_byte(r) ==
    IF r.item = None THEN None
    ELSE Some(r.item.index, r.item.index + 1, r.item.c)

\* (start, c) of the inner iterator becomes (start..start + c.len_utf8(), c)
CharRanges_item(r) ==
    IF r.item = None THEN None
    ELSE Some(r.item.index, r.item.index + len_utf8(r.item.c), r.item.c)

\* (mutant) next() reads from the back of the inner iterator
CharRanges_next_from_back(cr) ==
    LET r == CharIndices_next_back(cr.iter) IN
    [it |-> [iter |-> r.it], item |-> CharRanges_item(r)]

\* (mutant) next() starts the range at the index of the char among the
\* chars, not at its byte position
CharRanges_next_char_index(cr) ==
    LET r  == CharIndices_next(cr.iter)
        ch == cr.iter.iter
        k  == Cardinality({i \in 1..ch.lo : ~ utf8_is_cont_byte(ch.s[i])})
    IN
    [it   |-> [iter |-> r.it],
     item |-> IF r.item = None THEN None
              ELSE Some(k, k + len_utf8(r.item.c), r.item.c)]

\* (mutant) next() ends at the end of the text, not at the end of the view
CharRanges_next_own_cursor(cr) ==
    LET ci == cr.iter IN
    IF ci.front_offset = Len(ci.iter.s) THEN [it |-> cr, item |-> None]
    ELSE
        LET d == next_code_point(ci.iter.s, ci.iter.lo) IN
        [it   |-> [iter |-> [front_offset |-> ci.front_offset + d.n,
                             iter |-> [ci.iter EXCEPT !.lo = @ + d.n]]],
         item |-> Some(ci.front_offset, ci.front_offset + len_utf8(d.ch),
                       d.ch)]

\* CharRanges::next
CharRanges_next(cr) ==
    LET r == CharIndices_next(cr.iter) IN
    [it |-> [iter |-> r.it], item |-> CharRanges_item(r)]

\* (mutant) nth(n) looks before it skips: None, and nothing consumed, when
\* fewer than n + 1 chars remain
CharRanges_nth_checks_first(cr, n) ==
    IF CharRanges_count(cr) <= n THEN [it |-> cr, item |-> None]
    ELSE LET r == CharIndices_nth(cr.iter, n) IN
         [it |-> [iter |-> r.it], item |-> CharRanges_item(r)]

\* (mutant) nth(n) skips one char too many
CharRanges_nth_one_more(cr, n) ==
    LET r == CharIndices_nth(cr.iter, n + 1) IN
    [it |-> [iter |-> r.it], item |-> CharRanges_item(r)]

\* CharRanges::nth
CharRanges_nth(cr, n) ==
    LET r == CharIndices_nth(cr.iter, n) IN
    [it |-> [iter |-> r.it], item |-> CharRanges_item(r)]

\* (mutant) next_back() reads from the front of the inner iterator
CharRanges_next_back_from_front(cr) ==
    LET r == CharIndices_next(cr.iter) IN
    [it |-> [iter |-> r.it], item |-> CharRanges_item(r)]

\* (mutant) next_back() takes the index it gets for the end of the char
CharRanges_next_back_index_is_end(cr) ==
    LET r == CharIndices_next_back(cr.iter) IN
    [it   |-> [iter |-> r.it],
     item |-> IF r.item = None THEN None
              ELSE Some(r.item.index - len_utf8(r.item.c) + 1,
                        r.item.index + 1, r.item.c)]

\* (mutant) next_back() returns the last char and leaves it in the view
CharRanges_next_back_peeks(cr) ==
    LET r == CharIndices_next_back(cr.iter) IN
    [it |-> cr, item |-> CharRanges_item(r)]

\* CharRanges::next_back
CharRanges_next_back(cr) ==
    LET r == CharIndices_next_back(cr.iter) IN
    [it |-> [iter |-> r.it], item |-> CharRanges_item(r)]

\* (mutant) last() takes the next item from the front
CharRanges_last_from_front(cr) ==
    CharRanges_item(CharIndices_next(cr.iter))

\* CharRanges::last: `mut self` is consumed, the item is what is left
CharRanges_last(cr) == CharRanges_next_back(cr).item

\* (mutant) nth_back(n) ignores n
CharRanges_nth_back_ignores_n(cr, n) ==
    LET r == CharIndices_next_back(cr.iter) IN
    [it |-> [iter |-> r.it], item |-> CharRanges_item(r)]

\* CharRanges::nth_back
CharRanges_nth_back(cr, n) ==
    LET r == CharIndices_nth_back(cr.iter, n) IN
    [it |-> [iter |-> r.it], item |-> CharRanges_item(r)]

\* #[derive(Clone)] for CharRanges: a copy of the cursor
CharRanges_clone(cr) == cr

\* DebugList::entries over a CharRanges: every item of next() until None
RECURSIVE CharRanges_entries(_)
CharRanges_entries(cr) ==
    LET r == CharRanges_next(cr) IN
    IF r.item = None THEN << >> ELSE << r.item >> \o CharRanges_entries(r.it)

\* (mutant) fmt lists the chars of as_str(), with ranges counted from its
\* start
CharRanges_fmt_of_as_str(cr) ==
    [it      |-> cr,
     name    |-> "CharRanges",
     entries |-> CharRanges_entries(CharRanges_new(CharRanges_as_str(cr)))]

\* <CharRanges as fmt::Debug>::fmt: what is written, and self after it
CharRanges_fmt(cr) ==
    [it      |-> cr,
     name    |-> "CharRanges",
     entries |-> CharRanges_entries(CharRanges_clone(cr))]

(***************************************************************************)
(* CharRangesOffset { iter: CharRanges, offset: usize }                    *)
(***************************************************************************)
\* (mutant) offset() drops the offset it is given
CharRanges_offset_dropped(cr, offset) == [iter |-> cr, offset |-> 0]

\* (mutant) offset() starts over on the remaining view, so that positions
\* count from its start
CharRanges_offset_rebased(cr, offset) ==
    [iter |-> CharRanges_new(CharRanges_as_str(cr)), offset |-> offset]

\* CharRanges::offset
CharRanges_offset(cr, offset) == [iter |-> cr, offset |-> offset]

\* str::char_ranges_offset
char_ranges_offset(s, offset) == CharRanges_offset(CharRanges_new(s), offset)

\* (mutant) as_str() moves the start of the view by the offset as well
CharRangesOffset_as_str_shifted(co) ==
    LET ch    == co.iter.iter.iter
        start == IF ch.lo + co.offset < ch.hi THEN ch.lo + co.offset
                 ELSE ch.hi
    IN SubSeq(ch.s, start + 1, ch.hi)

\* CharRangesOffset::as_str
CharRangesOffset_as_str(co) == CharRanges_as_str(co.iter)

\* CharRangesOffset::offset
CharRangesOffset_offset(co) == co.offset

\* (r, c) of the inner iterator becomes
\* (r.start + self.offset..r.end + self.offset, c)
CharRangesOffset_item(r, offset) ==
    IF r.item = None THEN None
    ELSE IF overflow_checks
            /\ (usize_overflows(r.item.start, offset)
                \/ usize_overflows(r.item.end, offset))
    THEN Panic
    ELSE Some(usize_wrapping_add(r.item.start, offset),
              usize_wrapping_add(r.item.end, offset), r.item.c)

\* (mutant) next() moves the offset on by the length of the item
CharRangesOffset_next_moves_offset(co) ==
    LET r == CharRanges_next(co.iter) IN
    [it   |-> [iter   |-> r.it,
               offset |-> IF r.item = None THEN co.offset
                          ELSE co.offset + (r.item.end - r.item.start)],
     item |-> CharRangesOffset_item(r, co.offset)]

\* CharRangesOffset::next
CharRangesOffset_next(co) ==
    LET r == CharRanges_next(co.iter) IN
    [it   |-> [co EXCEPT !.iter = r.it],
     item |-> CharRangesOffset_item(r, co.offset)]

\* CharRangesOffset::nth
CharRangesOffset_nth(co, n) ==
    LET r == CharRanges_nth(co.iter, n) IN
    [it   |-> [co EXCEPT !.iter = r.it],
     item |-> CharRangesOffset_item(r, co.offset)]

\* CharRangesOffset::next_back
CharRangesOffset_next_back(co) ==
    LET r == CharRanges_next_back(co.iter) IN
    [it   |-> [co EXCEPT !.iter = r.it],
     item |-> CharRangesOffset_item(r, co.offset)]

\* CharRangesOffset::count
CharRangesOffset_count(co) == CharRanges_count(co.iter)

\* CharRangesOffset::size_hint
CharRangesOffset_size_hint(co) == CharRanges_size_hint(co.iter)

\* CharRangesOffset::last
CharRangesOffset_last(co) == CharRangesOffset_next_back(co).item

\* (mutant) nth_back(n) hands the inner item on without the offset
CharRangesOffset_nth_back_unshifted(co, n) ==
    LET r == CharRanges_nth_back(co.iter, n) IN
    [it |-> [co EXCEPT !.iter = r.it], item |-> r.item]

\* CharRangesOffset::nth_back
CharRangesOffset_nth_back(co, n) ==
    LET r == CharRanges_nth_back(co.iter, n) IN
    [it   |-> [co EXCEPT !.iter = r.it],
     item |-> CharRangesOffset_item(r, co.offset)]

\* #[derive(Clone)] for CharRangesOffset
CharRangesOffset_clone(co) ==
    [iter |-> CharRanges_clone(co.iter), offset |-> co.offset]

\* DebugList::entries over a CharRangesOffset
RECURSIVE CharRangesOffset_entries(_)
CharRangesOffset_entries(co) ==
    LET r == CharRangesOffset_next(co) IN
    IF r.item.kind # "Some" THEN << >>
    ELSE << r.item >> \o CharRangesOffset_entries(r.it)

\* <CharRangesOffset as fmt::Debug>::fmt
CharRangesOffset_fmt(co) ==
    [it      |-> co,
     name    |-> "CharRangesOffset",
     entries |-> CharRangesOffset_entries(CharRangesOffset_clone(co))]

(***************************************************************************)
(* The program: a text, a CharRanges over it and a CharRangesOffset over   *)
(* the same text, driven by the same calls.                                *)
(***************************************************************************)
VARIABLES
    src,        \* the chars of the text literal
    text,       \* the text: the UTF-8 bytes of src
    chars,      \* text.char_ranges()
    given,      \* the offset o handed to char_ranges_offset
    offs,       \* text.char_ranges_offset(o)
    op,         \* the most recent call: [name, n]
    ret,        \* what it returned on chars
    oret,       \* what it returned on offs
    pre,        \* chars as it was before the most recent call
    fronts,     \* the items chars returned from the front, oldest first
    backs,      \* the items chars returned from the back, oldest first
                \* (both kept while used tells the kinds of call apart)
    used        \* the kinds of call made so far (see Kinds)

vars == << overflow_checks, src, text, chars, given, offs, op, ret, oret, pre,
           fronts, backs, used >>

\* every sequence over S of at most n elements
RECURSIVE SeqsUpTo(_, _)
SeqsUpTo(S, n) ==
    IF n = 0 THEN {<< >>}
    ELSE LET shorter == SeqsUpTo(S, n - 1) IN
         shorter \cup {Append(q, x) : q \in shorter, x \in S}

\* the offsets of the running CharRangesOffset: the small ones and the
\* largest one for which every position of the text still fits a usize
Offsets(s) == {0, MaxOffset, USIZE_MAX - Len(s)}

Init ==
    \* no position overflows with the offsets of Offsets, so the profile is
    \* not observable here: the default (debug) profile
    /\ overflow_checks = TRUE
    /\ src \in SeqsUpTo(CodePoints, MaxLen)
    /\ text = Encode(src)
    /\ chars = CharRanges_new(text)
    /\ given \in Offsets(text)
    /\ offs = char_ranges_offset(text, given)
    /\ op = [name |-> "new", n |-> 0]
    /\ ret = None
    /\ oret = None
    /\ pre = chars
    /\ fronts = << >>
    /\ backs = << >>
    /\ used = {}

\* offsets so close to usize::MAX that positions of the text overflow
OffsetsWide == {USIZE_MAX - MaxOffset, USIZE_MAX}

\* the same program, in either build profile, with the offsets of OffsetsWide
InitWide ==
    /\ overflow_checks \in BOOLEAN
    /\ src \in SeqsUpTo(CodePoints, MaxLen)
    /\ text = Encode(src)
    /\ chars = CharRanges_new(text)
    /\ given \in OffsetsWide
    /\ offs = char_ranges_offset(text, given)
    /\ op = [name |-> "new", n |-> 0]
    /\ ret = None
    /\ oret = None
    /\ pre = chars
    /\ fronts = << >>
    /\ backs = << >>
    /\ used = {}

\* The kinds of call made so far, kept as far as the properties tell them
\* apart: one kind alone, next() together with next_back(), or "mixed".
Kinds(S) ==
    IF Cardinality(S) <= 1 \/ S = {"next", "next_back"} THEN S ELSE {"mixed"}

\* the bookkeeping shared by the calls: r and ro are the outcomes on chars
\* and offs; a panic ends the program
Called(name, n, kind, r, ro) ==
    /\ oret # Panic
    /\ chars' = r.it
    /\ offs' = ro.it
    /\ op' = [name |-> name, n |-> n]
    /\ ret' = r.item
    /\ oret' = ro.item
    /\ pre' = chars
    /\ used' = Kinds(used \cup {kind})
    /\ UNCHANGED << overflow_checks, src, text, given >>

\* the items on record after a call of this kind: none once the calls are
\* "mixed"
Kept(kind, items) ==
    IF Kinds(used \cup {kind}) = {"mixed"} THEN << >> ELSE items

\* chars.next(); offs.next()
Next_ ==
    LET r == CharRanges_next(chars) IN
    /\ Called("next", 0, "next", r, CharRangesOffset_next(offs))
    /\ fronts' = Kept("next", IF r.item = None THEN fronts
                              ELSE Append(fronts, r.item))
    /\ backs' = Kept("next", backs)

\* chars.next_back(); offs.next_back()
NextBack ==
    LET r == CharRanges_next_back(chars) IN
    /\ Called("next_back", 0, "next_back", r, CharRangesOffset_next_back(offs))
    /\ backs' = Kept("next_back", IF r.item = None THEN backs
                                  ELSE Append(backs, r.item))
    /\ fronts' = Kept("next_back", fronts)

\* chars.nth(n); offs.nth(n)
Nth ==
    \E n \in 0..MaxN :
        LET r    == CharRanges_nth(chars, n)
            kind == IF n = 0 THEN "nth0" ELSE "nth"
        IN
        /\ Called("nth", n, kind, r, CharRangesOffset_nth(offs, n))
        /\ fronts' = Kept(kind, IF r.item = None THEN fronts
                                ELSE Append(fronts, r.item))
        /\ backs' = Kept(kind, backs)

\* chars.nth_back(n); offs.nth_back(n)
NthBack ==
    \E n \in 0..MaxN :
        LET r    == CharRanges_nth_back(chars, n)
            kind == IF n = 0 THEN "nth_back0" ELSE "nth_back"
        IN
        /\ Called("nth_back", n, kind, r, CharRangesOffset_nth_back(offs, n))
        /\ backs' = Kept(kind, IF r.item = None THEN backs
                               ELSE Append(backs, r.item))
        /\ fronts' = Kept(kind, fronts)

Next == Next_ \/ NextBack \/ Nth \/ NthBack

Spec == Init /\ [][Next]_vars

SpecWide == InitWide /\ [][Next]_vars

\* a traversal: the caller keeps calling next() and next_back(), in any
\* order it likes, as a `for` or `while let` loop over either end does
Traversal == Next_ \/ NextBack

\* the offset plays no part in how long a traversal is: offset 0
InitTraversal == Init /\ given = 0

SpecTraversal == InitTraversal /\ [][Traversal]_vars /\ WF_vars(Traversal)

(***************************************************************************)
(* Vocabulary of the properties                                            *)
(***************************************************************************)
RECURSIVE Reverse(_)
Reverse(q) == IF q = << >> THEN << >> ELSE Append(Reverse(Tail(q)), Head(q))

\* the chars of a sequence of items
ItemChars(items) == [i \in 1..Len(items) |-> items[i].c]

\* the bytes text[a..b]
Slice(a, b) == SubSeq(text, a + 1, b)

\* the chars a str decodes to, front to back
RECURSIVE Decode(_)
Decode(ci) ==
    LET r == CharIndices_next(ci) IN
    IF r.item = None THEN << >> ELSE << r.item.c >> \o Decode(r.it)

\* the items of repeated next() until None
RECURSIVE CollectNext(_)
CollectNext(cr) ==
    LET r == CharRanges_next(cr) IN
    IF r.item = None THEN << >> ELSE << r.item >> \o CollectNext(r.it)

\* the remaining view is empty
Exhausted(cr) == CharRanges_as_str(cr) = << >>

(***************************************************************************)
(* C1: the range of every item returned by next(), next_back(), nth(n) or  *)
(* nth_back(n) is as long as the UTF-8 encoding of its char (1 to 4        *)
(* bytes), and the bytes of the text at that range are the encoding of     *)
(* that one char and decode to it and to nothing else.                     *)
(***************************************************************************)
C1_RangeDecodesToChar ==
    ret.kind = "Some" =>
        /\ ret.end - ret.start = len_utf8(ret.c)
        /\ ret.end - ret.start \in 1..4
        /\ 0 <= ret.start /\ ret.end <= Len(text)
        /\ Slice(ret.start, ret.end) = encode_utf8(ret.c)
        /\ Decode(CharIndices_new(Slice(ret.start, ret.end))) = << ret.c >>

\* nth_back(1) has returned a three-byte char from the middle of the text
C1_Witness ==
    /\ op = [name |-> "nth_back", n |-> 1]
    /\ ret.kind = "Some"
    /\ ret.end - ret.start = 3
    /\ ret.start > 0

(***************************************************************************)
(* C2: after any sequence of next() and next_back() calls, as_str() is     *)
(* text[F..B]: F the end of the range next() returned last (0 if none), B  *)
(* the start of the range next_back() returned last (len(text) if none).   *)
(***************************************************************************)
LastFrontEnd == IF fronts = << >> THEN 0 ELSE fronts[Len(fronts)].end

LastBackStart == IF backs = << >> THEN Len(text) ELSE backs[Len(backs)].start

C2_AsStrIsBetweenEnds ==
    used \subseteq {"next", "next_back"} =>
        CharRanges_as_str(chars) = Slice(LastFrontEnd, LastBackStart)

\* both ends have been consumed and something remains
C2_Witness ==
    /\ used = {"next", "next_back"}
    /\ fronts # << >>
    /\ backs # << >>
    /\ CharRanges_as_str(chars) # << >>
    /\ CharRanges_as_str(chars) # text

(***************************************************************************)
(* C3: under any interleaving of next() and next_back(), a call that       *)
(* returns an item takes exactly that one char off its own end of the      *)
(* remaining view; no front range ends after the start of a back range;    *)
(* and once the view is empty every char of the text has been returned     *)
(* exactly once.                                                           *)
(***************************************************************************)
C3_OneCharPerCall ==
    used \subseteq {"next", "next_back"} =>
        /\ (op.name = "next" /\ ret.kind = "Some") =>
               CharRanges_as_str(pre)
                   = encode_utf8(ret.c) \o CharRanges_as_str(chars)
        /\ (op.name = "next_back" /\ ret.kind = "Some") =>
               CharRanges_as_str(pre)
                   = CharRanges_as_str(chars) \o encode_utf8(ret.c)
        /\ \A i \in 1..Len(fronts) : \A j \in 1..Len(backs) :
               fronts[i].end <= backs[j].start
        /\ Exhausted(chars) =>
               LET all == fronts \o Reverse(backs) IN
               /\ ItemChars(all) = src
               /\ \A i \in 1..Len(all) :
                      all[i].start = (IF i = 1 THEN 0 ELSE all[i - 1].end)
               /\ (all # << >> => all[Len(all)].end = Len(text))

\* the two ends have met: three chars, taken from both ends
C3_Witness ==
    /\ used = {"next", "next_back"}
    /\ Exhausted(chars)
    /\ Len(fronts) + Len(backs) = 3
    /\ fronts # << >>
    /\ backs # << >>

(***************************************************************************)
(* C4: the chars returned by repeated next() until None, concatenated in   *)
(* order, are the text.                                                    *)
(***************************************************************************)
C4_ForwardReproducesText ==
    (used = {"next"} /\ ret = None) =>
        /\ Encode(ItemChars(fronts)) = text
        /\ ItemChars(fronts) = src

\* a full forward traversal of three chars that are not all alike
C4_Witness ==
    /\ used = {"next"}
    /\ ret = None
    /\ Len(fronts) = 3
    /\ fronts[1].c # fronts[3].c

(***************************************************************************)
(* C5: the items of repeated next_back() until None are the items of       *)
(* repeated next() until None on a fresh iterator over the same text, in   *)
(* reverse order.                                                          *)
(***************************************************************************)
C5_BackwardIsReverseOfForward ==
    (used = {"next_back"} /\ ret = None) =>
        backs = Reverse(CollectNext(CharRanges_new(text)))

\* a full backward traversal of three chars of different lengths
C5_Witness ==
    /\ used = {"next_back"}
    /\ ret = None
    /\ Len(backs) = 3
    /\ backs[1].end - backs[1].start # backs[3].end - backs[3].start

(***************************************************************************)
(* C6: whatever the call (next, next_back, nth(n), nth_back(n)), the       *)
(* CharRangesOffset returns None exactly when the CharRanges over the same *)
(* text does, and otherwise the same char with the offset added to both    *)
(* ends of the range.                                                      *)
(***************************************************************************)
C6_OffsetShiftsEveryItem ==
    /\ oret.kind = ret.kind
    /\ ret.kind = "Some" =>
           /\ oret.start = ret.start + CharRangesOffset_offset(offs)
           /\ oret.end = ret.end + CharRangesOffset_offset(offs)
           /\ oret.c = ret.c

\* nth_back(1) has returned an item shifted by a non-zero offset, after a
\* call from the front
C6_Witness ==
    /\ op = [name |-> "nth_back", n |-> 1]
    /\ ret.kind = "Some"
    /\ oret.kind = "Some"
    /\ CharRangesOffset_offset(offs) > 0
    /\ used = {"mixed"}
    /\ pre # CharRanges_new(text)

(***************************************************************************)
(* C7: for every char boundary o of the text, text[o..].char_ranges()      *)
(* .offset(o) returns the items, and has the as_str(), of                  *)
(* text.char_ranges() once that has consumed from the front the chars      *)
(* before byte o.                                                          *)
(***************************************************************************)
\* str::is_char_boundary
is_char_boundary(s, o) ==
    \/ o = 0
    \/ o = Len(s)
    \/ (o < Len(s) /\ ~ utf8_is_cont_byte(s[o + 1]))

\* the items of repeated next() on a CharRangesOffset until None
RECURSIVE CollectOffsetNext(_)
CollectOffsetNext(co) ==
    LET r == CharRangesOffset_next(co) IN
    IF r.item = None THEN << >> ELSE << r.item >> \o CollectOffsetNext(r.it)

\* only the front of chars has been consumed so far
FrontOnly == used \in {{}, {"next"}, {"nth0"}, {"nth"}}

\* the bytes chars has consumed
Consumed == Len(text) - Len(CharRanges_as_str(chars))

C7_SliceWithOffsetAgrees ==
    \A o \in {b \in 0..Len(text) : is_char_boundary(text, b)} :
        (FrontOnly /\ Consumed = o) =>
            LET sliced == CharRanges_offset(
                              CharRanges_new(Slice(o, Len(text))), o)
            IN
            /\ CollectOffsetNext(sliced) = CollectNext(chars)
            /\ CharRangesOffset_as_str(sliced) = CharRanges_as_str(chars)

\* a multi-byte char has been consumed from the front and two chars remain
C7_Witness ==
    /\ FrontOnly
    /\ Consumed >= 2
    /\ Len(fronts) = 1
    /\ Len(CollectNext(chars)) = 2

(***************************************************************************)
(* C8: where at least n + 1 chars remain, nth(n) returns the item and      *)
(* leaves the view that n + 1 calls of next() return last and leave; and   *)
(* repeated nth(0) until None returns the items of repeated next().        *)
(***************************************************************************)
\* the outcome of the last of k >= 1 calls of next()
RECURSIVE NextTimes(_, _)
NextTimes(cr, k) ==
    IF k = 1 THEN CharRanges_next(cr)
    ELSE NextTimes(CharRanges_next(cr).it, k - 1)

C8_NthIsRepeatedNext ==
    /\ (op.name = "nth" /\ CharRanges_count(pre) >= op.n + 1) =>
           LET r == NextTimes(pre, op.n + 1) IN
           /\ ret = r.item
           /\ ret.kind = "Some"
           /\ CharRanges_as_str(chars) = CharRanges_as_str(r.it)
           /\ chars = r.it
    /\ (used = {"nth0"} /\ ret = None) =>
           fronts = CollectNext(CharRanges_new(text))

\* nth(2) has skipped two chars, one of them multi-byte
C8_Witness ==
    /\ op = [name |-> "nth", n |-> 2]
    /\ ret.kind = "Some"
    /\ ret.start > 2

(***************************************************************************)
(* C9: where at least n + 1 chars remain, nth_back(n) returns the item and *)
(* leaves the view that n + 1 calls of next_back() return last and leave;  *)
(* and repeated nth_back(0) until None returns the items of the forward    *)
(* traversal in reverse.                                                   *)
(***************************************************************************)
\* the outcome of the last of k >= 1 calls of next_back()
RECURSIVE NextBackTimes(_, _)
NextBackTimes(cr, k) ==
    IF k = 1 THEN CharRanges_next_back(cr)
    ELSE NextBackTimes(CharRanges_next_back(cr).it, k - 1)

C9_NthBackIsRepeatedNextBack ==
    /\ (op.name = "nth_back" /\ CharRanges_count(pre) >= op.n + 1) =>
           LET r == NextBackTimes(pre, op.n + 1) IN
           /\ ret = r.item
           /\ ret.kind = "Some"
           /\ CharRanges_as_str(chars) = CharRanges_as_str(r.it)
           /\ chars = r.it
    /\ (used = {"nth_back0"} /\ ret = None) =>
           backs = Reverse(CollectNext(CharRanges_new(text)))

\* nth_back(2) has skipped two chars, one of them multi-byte
C9_Witness ==
    /\ op = [name |-> "nth_back", n |-> 2]
    /\ ret.kind = "Some"
    /\ ret.end < Len(text) - 2

(***************************************************************************)
(* C10: exhaustion is final and shared by both ends: whenever the          *)
(* remaining view is empty, whichever end took the last char, next() and   *)
(* next_back() both return None, and a next() or next_back() made in that  *)
(* state returned None and left the view empty.                            *)
(***************************************************************************)
C10_ExhaustionIsFinal ==
    /\ Exhausted(chars) =>
           /\ CharRanges_next(chars).item = None
           /\ CharRanges_next_back(chars).item = None
           /\ Exhausted(CharRanges_next(chars).it)
           /\ Exhausted(CharRanges_next_back(chars).it)
    /\ (Exhausted(pre) /\ op.name \in {"next", "next_back"}) =>
           /\ ret = None
           /\ Exhausted(chars)

\* the back took the last char, and next() then returned None
C10_Witness ==
    /\ op.name = "next"
    /\ ret = None
    /\ Exhausted(pre)
    /\ Exhausted(chars)
    /\ fronts = << >>
    /\ backs # << >>

(***************************************************************************)
(* C11: last() returns the item that repeated next() until None returns    *)
(* last, and None when the remaining view is empty; for CharRangesOffset   *)
(* the same, with the range shifted by the offset.                         *)
(***************************************************************************)
\* the last element of a sequence of items, None if there is none
LastOf(items) == IF items = << >> THEN None ELSE items[Len(items)]

C11_LastIsLastOfForward ==
    LET l  == CharRanges_last(chars)
        lo == CharRangesOffset_last(offs)
    IN
    /\ l = LastOf(CollectNext(chars))
    /\ Exhausted(chars) => l = None
    /\ lo = LastOf(CollectOffsetNext(offs))
    /\ /\ lo.kind = l.kind
       /\ l.kind = "Some" =>
              /\ lo.start = l.start + CharRangesOffset_offset(offs)
              /\ lo.end = l.end + CharRangesOffset_offset(offs)
              /\ lo.c = l.c

\* after a call at the front, two chars of different lengths remain
C11_Witness ==
    /\ fronts # << >>
    /\ Len(CollectNext(chars)) = 2
    /\ CharRanges_last(chars).kind = "Some"
    /\ CharRanges_last(chars).end - CharRanges_last(chars).start
           # CollectNext(chars)[1].end - CollectNext(chars)[1].start
    /\ CharRangesOffset_offset(offs) > 0

(***************************************************************************)
(* C12: count() of CharRanges and of CharRangesOffset is the number of     *)
(* chars (not bytes) of the remaining view: the number of further next()   *)
(* calls that return an item.                                              *)
(***************************************************************************)
C12_CountIsRemainingChars ==
    /\ CharRanges_count(chars) = Len(CollectNext(chars))
    /\ CharRangesOffset_count(offs) = Len(CollectOffsetNext(offs))
    /\ FrontOnly /\ used # {"nth"} =>
           CharRanges_count(chars) = Len(src) - Len(fronts)

\* the back has been consumed, multi-byte chars remain
C12_Witness ==
    /\ backs # << >>
    /\ CharRanges_count(chars) = 2
    /\ Len(CharRanges_as_str(chars)) > 4

(***************************************************************************)
(* C13: size_hint() of CharRanges and of CharRangesOffset is (lo, Some(hi))*)
(* with lo <= count() <= hi, the bounds being those of the char decoder    *)
(* for the remaining view.                                                 *)
(***************************************************************************)
C13_SizeHintBoundsCount ==
    LET h     == CharRanges_size_hint(chars)
        ho    == CharRangesOffset_size_hint(offs)
        left  == Len(CollectNext(chars))
        oleft == Len(CollectOffsetNext(offs))
    IN
    /\ h.lo <= left
    /\ left <= h.hi
    /\ h.lo <= CharRanges_count(chars) /\ CharRanges_count(chars) <= h.hi
    /\ ho.lo <= oleft
    /\ oleft <= ho.hi
    /\ h = Chars_size_hint(Chars_new(CharRanges_as_str(chars)))
    /\ ho = Chars_size_hint(Chars_new(CharRangesOffset_as_str(offs)))

\* the front has been consumed; the bounds are strict on both sides
C13_Witness ==
    /\ fronts # << >>
    /\ CharRanges_size_hint(chars).lo < CharRanges_count(chars)
    /\ CharRanges_count(chars) < CharRanges_size_hint(chars).hi

(***************************************************************************)
(* C14: offset() of a CharRangesOffset created with offset o returns o in  *)
(* every reachable state: no next(), next_back(), nth(n) or nth_back(n)    *)
(* changes the stored offset (as_str() and offset() take &self).           *)
(***************************************************************************)
C14_OffsetNeverChanges == CharRangesOffset_offset(offs) = given

\* calls of several kinds have returned items, with a non-zero offset
C14_Witness ==
    /\ given > 0
    /\ used = {"mixed"}
    /\ pre # CharRanges_new(text)
    /\ oret.kind = "Some"
    /\ Exhausted(chars)

(***************************************************************************)
(* C15: as_str() of the CharRangesOffset is the unconsumed part of the     *)
(* text whatever the offset: it is as_str() of the CharRanges over the     *)
(* same text after the same calls.                                         *)
(***************************************************************************)
C15_OffsetAsStrIsPlainView ==
    /\ CharRangesOffset_as_str(offs) = CharRanges_as_str(chars)
    /\ used \subseteq {"next", "next_back"} =>
           CharRangesOffset_as_str(offs) = Slice(LastFrontEnd, LastBackStart)

\* a non-zero offset, both ends consumed, something remains
C15_Witness ==
    /\ given > 0
    /\ used = {"next", "next_back"}
    /\ fronts # << >>
    /\ backs # << >>
    /\ CharRangesOffset_as_str(offs) # << >>

(***************************************************************************)
(* C16: Debug formatting of a CharRanges or CharRangesOffset lists exactly *)
(* the items that remain to be returned from the front, in order, and      *)
(* leaves the iterator as it was: as_str(), offset() and every later call  *)
(* are those of the unformatted iterator.                                  *)
(***************************************************************************)
\* the items of the chars cs laid out from byte offset at on
RECURSIVE TextItems(_, _)
TextItems(cs, at) ==
    IF cs = << >> THEN << >>
    ELSE << Some(at, at + Len(encode_utf8(Head(cs))), Head(cs)) >>
             \o TextItems(Tail(cs), at + Len(encode_utf8(Head(cs))))

\* the items of the text that lie within the remaining view of chars
RemainingItems ==
    SelectSeq(TextItems(src, 0),
              LAMBDA it : /\ chars.iter.iter.lo <= it.start
                          /\ it.end <= chars.iter.iter.hi)

\* items with o added to both ends of the range
Shifted(items, o) ==
    [i \in 1..Len(items) |->
        Some(items[i].start + o, items[i].end + o, items[i].c)]

C16_DebugListsRemainingItems ==
    LET f    == CharRanges_fmt(chars)
        fo   == CharRangesOffset_fmt(offs)
        left == RemainingItems
    IN
    /\ f.entries = left
    /\ f.entries = CollectNext(chars)
    /\ f.it = chars
    /\ CharRanges_as_str(f.it) = CharRanges_as_str(chars)
    /\ fo.entries = Shifted(left, given)
    /\ fo.entries = CollectOffsetNext(offs)
    /\ fo.it = offs
    /\ CharRangesOffset_as_str(fo.it) = CharRangesOffset_as_str(offs)
    /\ CharRangesOffset_offset(fo.it) = CharRangesOffset_offset(offs)

\* the front has been consumed, two items left to list, a non-zero offset
C16_Witness ==
    /\ fronts # << >>
    /\ Len(CharRanges_fmt(chars).entries) = 2
    /\ Len(CharRangesOffset_fmt(offs).entries) = 2
    /\ given > 0

(***************************************************************************)
(* C17: for every offset a usize can hold, every item of CharRangesOffset  *)
(* has end > start, both ends being the inner ends plus the offset, and no *)
(* call panics: r.start + offset and r.end + offset never overflow.        *)
(***************************************************************************)
C17_OffsetNeverOverflows ==
    /\ oret # Panic
    /\ oret.kind = "Some" =>
           /\ oret.end > oret.start
           /\ oret.start = ret.start + given
           /\ oret.end = ret.end + given

(***************************************************************************)
(* C18: when fewer than n + 1 chars remain, nth(n) and nth_back(n) return  *)
(* None and consume the whole remaining view: afterwards as_str() is empty *)
(* and every later call returns None.                                      *)
(***************************************************************************)
C18_ShortNthConsumesAll ==
    (op.name \in {"nth", "nth_back"} /\ CharRanges_count(pre) < op.n + 1) =>
        /\ ret = None
        /\ oret = None
        /\ CharRanges_as_str(chars) = << >>
        /\ CharRangesOffset_as_str(offs) = << >>
        /\ CharRanges_next(chars).item = None
        /\ CharRanges_next_back(chars).item = None
        /\ \A k \in 0..MaxN :
               /\ CharRanges_nth(chars, k).item = None
               /\ CharRanges_nth_back(chars, k).item = None
               /\ CharRangesOffset_nth(offs, k).item = None
               /\ CharRangesOffset_nth_back(offs, k).item = None

\* nth(2) was called with two chars left, one of them multi-byte
C18_Witness ==
    /\ op = [name |-> "nth", n |-> 2]
    /\ CharRanges_count(pre) = 2
    /\ Len(CharRanges_as_str(pre)) > 2
    /\ ret = None

(***************************************************************************)
(* C19: the ranges of a forward traversal tile the text: the first starts  *)
(* at 0, each later one starts where the one before ended, and at None the *)
(* last ends at len(text); in a backward traversal the first ends at       *)
(* len(text), each later one ends where the one before started, and at     *)
(* None the last starts at 0.                                              *)
(***************************************************************************)
C19_RangesTileTheText ==
    /\ used = {"next"} =>
           /\ \A i \in 1..Len(fronts) :
                  /\ fronts[i].start = (IF i = 1 THEN 0 ELSE fronts[i - 1].end)
                  /\ fronts[i].start < fronts[i].end
           /\ ret = None => LastFrontEnd = Len(text)
    /\ used = {"next_back"} =>
           /\ \A i \in 1..Len(backs) :
                  /\ backs[i].end
                         = (IF i = 1 THEN Len(text) ELSE backs[i - 1].start)
                  /\ backs[i].start < backs[i].end
           /\ ret = None => LastBackStart = 0

\* a full forward traversal of three chars, the second one multi-byte
C19_Witness ==
    /\ used = {"next"}
    /\ ret = None
    /\ Len(fronts) = 3
    /\ fronts[2].end - fronts[2].start > 1

(***************************************************************************)
(* C20: offset(o) on a CharRanges that has been partly consumed does not   *)
(* count positions from the remaining view: the CharRangesOffset returns   *)
(* the items the CharRanges would still have returned, each with o added   *)
(* to both ends, so its first front item starts at the end of the range    *)
(* consumed last from the front, plus o.                                   *)
(***************************************************************************)
\* the items of repeated next_back() until None
RECURSIVE CollectNextBack(_)
CollectNextBack(cr) ==
    LET r == CharRanges_next_back(cr) IN
    IF r.item = None THEN << >> ELSE << r.item >> \o CollectNextBack(r.it)

RECURSIVE CollectOffsetNextBack(_)
CollectOffsetNextBack(co) ==
    LET r == CharRangesOffset_next_back(co) IN
    IF r.item = None THEN << >>
    ELSE << r.item >> \o CollectOffsetNextBack(r.it)

C20_OffsetKeepsPositions ==
    LET forward  == CollectNext(chars)
        backward == CollectNextBack(chars)
    IN
    \A o \in {1, MaxOffset, USIZE_MAX - Len(text)} :
        LET co == CharRanges_offset(chars, o) IN
        /\ CharRangesOffset_offset(co) = o
        /\ CollectOffsetNext(co) = Shifted(forward, o)
        /\ CollectOffsetNextBack(co) = Shifted(backward, o)
        /\ (used \subseteq {"next", "next_back"} /\ ~ Exhausted(chars)) =>
               CharRangesOffset_next(co).item.start = LastFrontEnd + o

\* a multi-byte char and a char from the back are gone, something remains
C20_Witness ==
    /\ used = {"next", "next_back"}
    /\ fronts # << >>
    /\ backs # << >>
    /\ LastFrontEnd > 1
    /\ ~ Exhausted(chars)

(***************************************************************************)
(* C21: every traversal terminates.  Each next() / next_back() call that   *)
(* returns an item shrinks the remaining view by 1 to 4 bytes, a call that *)
(* returns None leaves it empty, and under any interleaving of front and   *)
(* back calls the iterator eventually returns None, after exactly as many  *)
(* successful calls as count() reported for the initial state.             *)
(***************************************************************************)
\* the calls that returned an item so far
Successful == Len(fronts) + Len(backs)

\* count() of the iterator as constructed
InitialCount == CharRanges_count(CharRanges_new(text))

\* the last call was next() or next_back()
EndCall == op.name \in {"next", "next_back"}

C21_CallsShrinkTheView ==
    EndCall =>
        LET before == Len(CharRanges_as_str(pre))
            after  == Len(CharRanges_as_str(chars))
        IN
        /\ ret.kind = "Some" => before - after \in 1..4
        /\ ret.kind = "Some" => before - after = ret.end - ret.start
        /\ ret = None => before = 0 /\ after = 0
        /\ Successful + CharRanges_count(chars) = InitialCount
        /\ ret = None => Successful = InitialCount

C21_ReturnedNone == EndCall /\ ret = None /\ Successful = InitialCount

C21_TraversalTerminates ==
    /\ [] C21_CallsShrinkTheView
    /\ <> C21_ReturnedNone

\* three chars taken from both ends, a 4-byte one among them, then None
C21_Witness ==
    /\ EndCall
    /\ ret = None
    /\ fronts # << >>
    /\ backs # << >>
    /\ Successful = 3
    /\ \E i \in 1..Len(fronts) : fronts[i].end - fronts[i].start = 4

====
